---- MODULE Spec2Model ----
(***************************************************************************)
(* A model of microcli (src/microcli.py): the signature-driven command     *)
(* registry, the global and per-command option parsers (optparse as        *)
(* specialised by CustomStderrOptionParser) and the dispatcher             *)
(* MicroCLI.run, run over the commands of the class MicroCLITestCase.T.    *)
(***************************************************************************)
EXTENDS Integers, Sequences, FiniteSets, TLC

(***************************************************************************)
(* Command-line tokens.  A token is a Python string; the model keeps the   *)
(* parse optparse makes of it (arg[0:2] == "--", arg[:1] == "-", the split *)
(* at "=") and TextOf gives the string back.                               *)
(*   W(s)     the bare word s                                              *)
(*   L(s)     --s                                                          *)
(*   LV(s,v)  --s=v                                                        *)
(*   S(c,r)   -c followed by the further characters r (a short cluster)    *)
(*   DD       --                                                           *)
(***************************************************************************)
W(s) == [k |-> "word", s |-> s, v |-> ""]
L(s) == [k |-> "long", s |-> s, v |-> ""]
LV(s, v) == [k |-> "longeq", s |-> s, v |-> v]
S(c, r) == [k |-> "short", s |-> c, v |-> r]
DD == [k |-> "dd", s |-> "", v |-> ""]

TextOf(tok) ==
    CASE tok.k = "word" -> tok.s
      [] tok.k = "long" -> "--" \o tok.s
      [] tok.k = "longeq" -> "--" \o tok.s \o "=" \o tok.v
      [] tok.k = "short" -> "-" \o tok.s \o tok.v
      [] tok.k = "dd" -> "--"

RECURSIVE JoinWith(_, _)
JoinWith(parts, sep) ==
    IF parts = <<>> THEN ""
    ELSE IF Len(parts) = 1 THEN parts[1]
    ELSE parts[1] \o sep \o JoinWith(Tail(parts), sep)

(***************************************************************************)
(* Python values: strings, ints, bools, None, and the sentinel that marks  *)
(* a parameter without a default.                                          *)
(***************************************************************************)
PyStr(s) == [t |-> "str", s |-> s, n |-> 0]
PyInt(n) == [t |-> "int", s |-> "", n |-> n]
PyBool(b) == [t |-> "bool", s |-> "", n |-> IF b THEN 1 ELSE 0]
PyNone == [t |-> "NoneType", s |-> "", n |-> 0]
ARG_NO_DEFAULT_VALUE == [t |-> "object", s |-> "", n |-> 0]
\* a float is kept as its str()
PyFloat(s) == [t |-> "float", s |-> s, n |-> 0]

\* str(v)
StrOf(v) ==
    CASE v.t = "str" -> v.s
      [] v.t = "float" -> v.s
      [] v.t = "int" -> ToString(v.n)
      [] v.t = "bool" -> IF v.n = 1 THEN "True" ELSE "False"
      [] OTHER -> "None"

\* the integers the model's int() can produce
MaxInt == 20
IntRange == (0 - MaxInt) .. MaxInt

\* int(text): the text is parsed, not trusted to be a number
IsIntText(text) == \E n \in IntRange : ToString(n) = text
IntOfText(text) == CHOOSE n \in IntRange : ToString(n) = text

\* float(text): the texts with a fraction that the model's float() reads,
\* besides the integer texts; str(float("7")) is "7.0"
FractionTexts == {"2.5", "0.1"}
IsFloatText(text) == IsIntText(text) \/ text \in FractionTexts
FloatOfText(text) ==
    IF IsIntText(text) THEN ToString(IntOfText(text)) \o ".0" ELSE text

(***************************************************************************)
(* Signature inspector and command registry.  A parameter name is kept as  *)
(* its underscore-separated segments, so that the Python name and the flag *)
(* spelling are both computed from it.  Signatures are those of            *)
(* MicroCLI.help and of the commands of MicroCLITestCase.T.                *)
(***************************************************************************)
Param(segs, default) == [segs |-> segs, default |-> default]
NoVarargs == ""

RETVAL == 15

Signature(params, varargs, ignore_unknown, doc) ==
    [params |-> params, varargs |-> varargs,
     ignore_unknown |-> ignore_unknown, doc |-> doc]

CommandNames == {"help", "f1", "f2", "f3", "f4", "f5", "f6", "f7", "f8", "f9"}

\* inspect.getargspec of the undecorated method, self dropped, plus the
\* decorator's parser options
get_commands(name) ==
    CASE name = "help" -> Signature(<<>>, NoVarargs, FALSE, " Print usage ")
      [] name = "f1" -> Signature(<<>>, NoVarargs, FALSE, "simple command: no parameters")
      [] name = "f2" ->
           Signature(<<Param(<<"a">>, ARG_NO_DEFAULT_VALUE)>>, NoVarargs, FALSE,
                     "a command with only positional arguments")
      [] name = "f3" ->
           Signature(<<Param(<<"awesome", "option">>, PyStr("asdf"))>>, NoVarargs, FALSE,
                     "a command with only keyword arguments")
      [] name = "f4" ->
           Signature(<<Param(<<"arg1">>, ARG_NO_DEFAULT_VALUE),
                       Param(<<"arg2">>, ARG_NO_DEFAULT_VALUE),
                       Param(<<"kwopt">>, PyStr("asdf"))>>, NoVarargs, FALSE,
                     "a command with both positional and keyword arguments")
      [] name = "f5" ->
           Signature(<<Param(<<"cmd", "specific", "arg">>, PyInt(2))>>, NoVarargs, FALSE,
                     "a command that uses global options")
      [] name = "f6" ->
           Signature(<<Param(<<"arg1">>, ARG_NO_DEFAULT_VALUE),
                       Param(<<"arg2">>, ARG_NO_DEFAULT_VALUE)>>, "vararg", FALSE,
                     "a command which accepts varargs")
      [] name = "f7" ->
           Signature(<<Param(<<"int", "option">>, PyInt(0)),
                       Param(<<"float", "option">>, PyFloat("0.1")),
                       Param(<<"bool", "option1">>, PyBool(TRUE)),
                       Param(<<"bool", "option2">>, PyBool(FALSE)),
                       Param(<<"string", "option">>, PyStr("asdf"))>>, NoVarargs, FALSE,
                     "a command to test the types of kwargs")
      [] name = "f8" ->
           Signature(<<>>, "option", TRUE,
                     "command parsers can treat unknown options as varargs")
      [] name = "f9" ->
           Signature(<<Param(<<"arg">>, ARG_NO_DEFAULT_VALUE),
                       Param(<<"switch">>, PyInt(2))>>, "vararg", FALSE,
                     "a command which accepts args, kwargs and varargs")

ParamName(p) == JoinWith(p.segs, "_")

kwarg_name_to_option_name(segs) == JoinWith(segs, "-")

\* An optparse option: --long (and -short), the attribute it stores to,
\* its action and its type.
Option(long, short, dest, action, type, default) ==
    [long |-> long, short |-> short, dest |-> dest, action |-> action,
     type |-> type, default |-> default]

\* an option maker that gives every value option the type string
add_parser_option_Untyped(segs, default_value) ==
    Option(kwarg_name_to_option_name(segs), "", ParamName([segs |-> segs]),
           IF default_value.t = "bool"
           THEN (IF default_value.n = 1 THEN "store_false" ELSE "store_true")
           ELSE "store",
           IF default_value.t = "bool" THEN "" ELSE "string", default_value)

\* an option maker whose boolean flags store the default's own value
add_parser_option_SameSense(segs, default_value) ==
    LET action == IF default_value.t = "bool"
                  THEN (IF default_value.n = 1 THEN "store_true" ELSE "store_false")
                  ELSE "store"
        arg_type == CASE default_value.t = "str" -> "string"
                      [] default_value.t \in {"float", "int"} -> default_value.t
                      [] default_value.t = "bool" -> ""
                      [] OTHER -> "string"
    IN Option(kwarg_name_to_option_name(segs), "", ParamName([segs |-> segs]),
              action, arg_type, default_value)

add_parser_option(segs, default_value) ==
    LET action == IF default_value.t = "bool"
                  THEN (IF default_value.n = 1 THEN "store_false" ELSE "store_true")
                  ELSE "store"
        arg_type == CASE default_value.t = "str" -> "string"
                      [] default_value.t \in {"float", "int"} -> default_value.t
                      [] default_value.t = "bool" -> ""
                      [] OTHER -> "string"
    IN Option(kwarg_name_to_option_name(segs), "", ParamName([segs |-> segs]),
              action, arg_type, default_value)

args_with_defaults(name) == get_commands(name).params

RECURSIVE SelectParams(_, _)
SelectParams(params, withDefault) ==
    IF params = <<>> THEN <<>>
    ELSE IF (Head(params).default # ARG_NO_DEFAULT_VALUE) = withDefault
         THEN <<Head(params)>> \o SelectParams(Tail(params), withDefault)
         ELSE SelectParams(Tail(params), withDefault)

\* CommandDefinition.arg_names
arg_names(name) ==
    LET ps == SelectParams(args_with_defaults(name), FALSE)
    IN [i \in 1..Len(ps) |-> ParamName(ps[i])]

varargs(name) == get_commands(name).varargs

\* the option_list of the command's parser
CommandOptionList(name) ==
    LET ps == SelectParams(args_with_defaults(name), TRUE)
    IN [i \in 1..Len(ps) |-> add_parser_option(ps[i].segs, ps[i].default)]

\* Streams: the stdout the CLI object was constructed with, a stream the
\* host assigns to cli.stdout afterwards, and the interpreter's stderr.
CtorStdout == "stdout@construction"
LaterStdout == "stdout@redirected"
SysStderr == "sys.stderr"

Parser(option_list, ignore_unknown, allow_interspersed_args, stderr, owner) ==
    [option_list |-> option_list, ignore_unknown |-> ignore_unknown,
     allow_interspersed_args |-> allow_interspersed_args,
     stderr |-> stderr, owner |-> owner]

\* get_command_definition's CommandOptionParser: stderr is the CLI's stdout
\* as it is while the CLI object is constructed
CommandOptionParser(name) ==
    Parser(CommandOptionList(name), get_commands(name).ignore_unknown, TRUE,
           CtorStdout, name)

(***************************************************************************)
(* Effects of a run, in the order they happen: a write to a stream, a call *)
(* of the exit operation, the invocation of a command body.                *)
(***************************************************************************)
Event(e, stream, text, code) == [e |-> e, stream |-> stream, text |-> text, code |-> code]
WriteEv(stream, text) == Event("write", stream, text, 0)
ExitEv(code) == Event("exit", "", "", code)
CallEv(name) == Event("call", "", name, 0)

Range(f) == {f[i] : i \in DOMAIN f}

\* os.path.basename(sys.argv[0])
ProgName == "prog"

GLOBAL_OPTIONS_STR == "[global options]"
COMMAND_OPTIONS_STR == "[command options]"

\* the global parser's -h/--help, which OptionParser.__init__ adds
HelpOption == Option("help", "h", "", "help", "", PyNone)

\* The usage texts are kept as the pieces the code puts together, so that
\* what a text contains can be told; Concat gives the text.
Concat(pieces) == JoinWith(pieces, "")

\* a usage with the global marker left out whatever is registered
GlobalUsagePieces_NoMarker(option_list) ==
    <<ProgName, " ", "command [command options] command arguments">>

\* the pieces of GlobalOptionParser.USAGE as expand_prog_name fills it
GlobalUsagePieces(option_list) ==
    <<ProgName, " ">>
      \o (IF Len(option_list) > 1 THEN <<GLOBAL_OPTIONS_STR, " ">> ELSE <<>>)
      \o <<"command [command options] command arguments">>

\* GlobalOptionParser.expand_prog_name on GlobalOptionParser.USAGE
expand_prog_name(option_list) == Concat(GlobalUsagePieces(option_list))

\* the pieces of CommandHelpFormatter.get_command_usage
CommandUsagePieces(name, has_global_options) ==
    <<"Usage: ", ProgName, " ">>
      \o (IF has_global_options THEN <<GLOBAL_OPTIONS_STR, " ">> ELSE <<>>)
      \o <<name, " ">>
      \o (IF Len(CommandOptionList(name)) > 0 THEN <<COMMAND_OPTIONS_STR, " ">> ELSE <<>>)
      \o <<JoinWith(arg_names(name), " ")>>
      \o (IF varargs(name) # NoVarargs
          THEN <<" [" \o varargs(name) \o "1 " \o varargs(name) \o "2 "
                   \o varargs(name) \o "3 ... " \o varargs(name) \o "N]">>
          ELSE <<>>)

\* CommandHelpFormatter.get_command_usage
get_command_usage(name, has_global_options) ==
    Concat(CommandUsagePieces(name, has_global_options))

\* the global parser's usage line
GlobalUsageLine(option_list) == "Usage: " \o expand_prog_name(option_list) \o "\n"

\* OptionParser.get_usage: the formatter's format_usage
get_usage(p, env) ==
    IF p.owner = ""
    THEN GlobalUsageLine(p.option_list)
    ELSE "    " \o p.owner \o ": " \o get_commands(p.owner).doc \o "\n"
           \o "    " \o get_command_usage(p.owner, env.has_global_options)

(***************************************************************************)
(* optparse, as CustomStderrOptionParser specialises it.  A parse is a     *)
(* state: the arguments left (rargs), the positional arguments collected   *)
(* (largs), the option values, the effects so far, and how control left    *)
(* the last step: "run", a normal "return", or the exception raised.       *)
(***************************************************************************)
PState(largs, rargs, values, ev, ctl, opt_str) ==
    [largs |-> largs, rargs |-> rargs, values |-> values, ev |-> ev,
     ctl |-> ctl, opt_str |-> opt_str]

\* CustomStderrOptionParser.exit: sys.exit raises SystemExit unless the
\* exit operation is intercepted, and then control returns to the caller
ParserExit(p, env, st, status, msg) ==
    LET ev1 == IF msg # "" THEN Append(st.ev, WriteEv(p.stderr, msg)) ELSE st.ev
    IN [st EXCEPT !.ev = Append(ev1, ExitEv(status)),
                  !.ctl = IF env.exit_returns THEN @ ELSE "SystemExit"]

\* CustomStderrOptionParser.error
ParserError(p, env, st, msg) ==
    ParserExit(p, env,
               [st EXCEPT !.ev = @ \o <<WriteEv(p.stderr, get_usage(p, env)), WriteEv(p.stderr, "\n")>>],
               2, ProgName \o ": error: " \o msg \o "\n")

\* the long option names of the model of which another is a proper prefix
ProperPrefixes == {<<"awesome", "awesome-option">>, <<"cmd", "cmd-specific-arg">>}
StartsWith(w, s) == w = s \/ <<s, w>> \in ProperPrefixes

\* Option.takes_value
takes_value(option) == option.action = "store"

\* GlobalOptionParser.print_help: the global help, then every command's
CommandOrder == <<"f1", "f2", "f3", "f4", "f5", "f6", "f7", "f8", "f9", "help">>

\* HelpFormatter.format_option: one line per option
RECURSIVE OptionLines(_)
OptionLines(option_list) ==
    IF option_list = <<>> THEN ""
    ELSE "  " \o (IF Head(option_list).short # ""
                  THEN "-" \o Head(option_list).short \o ", " ELSE "")
           \o "--" \o Head(option_list).long \o "\n" \o OptionLines(Tail(option_list))

\* OptionParser.format_help of a command's parser
RECURSIVE CommandHelps(_, _, _)
CommandHelps(names, output, env) ==
    IF names = <<>> THEN <<>>
    ELSE <<WriteEv(output, "    " \o Head(names) \o ": " \o get_commands(Head(names)).doc
                             \o "\n    "
                             \o get_command_usage(Head(names), env.has_global_options)
                             \o "\n" \o "    Command options:\n"
                             \o OptionLines(CommandOptionList(Head(names)))),
           WriteEv(output, "\n")>>
         \o CommandHelps(Tail(names), output, env)

\* OptionParser.format_option_help of the global parser
GlobalOptionHelp(option_list) == "\n" \o "Global options:\n" \o OptionLines(option_list)

print_help(p, env) ==
    <<WriteEv(p.stderr, GlobalUsageLine(p.option_list) \o GlobalOptionHelp(p.option_list)),
      WriteEv(p.stderr, "\nCommands:\n")>>
    \o CommandHelps(CommandOrder, p.stderr, env)

\* Option.process: convert_value (check_value by type), then take_action
OptionProcess(p, env, st, option, opt, value) ==
    CASE option.action = "store" /\ option.type = "int" ->
           IF IsIntText(TextOf(value))
           THEN [st EXCEPT !.values[option.dest] = PyInt(IntOfText(TextOf(value)))]
           ELSE [st EXCEPT !.ctl = "OptionValueError", !.opt_str = opt]
      [] option.action = "store" /\ option.type = "float" ->
           IF IsFloatText(TextOf(value))
           THEN [st EXCEPT !.values[option.dest] = PyFloat(FloatOfText(TextOf(value)))]
           ELSE [st EXCEPT !.ctl = "OptionValueError", !.opt_str = opt]
      [] option.action = "store" /\ option.type \notin {"int", "float"} ->
           [st EXCEPT !.values[option.dest] = PyStr(TextOf(value))]
      [] option.action = "store_true" -> [st EXCEPT !.values[option.dest] = PyBool(TRUE)]
      [] option.action = "store_false" -> [st EXCEPT !.values[option.dest] = PyBool(FALSE)]
      [] option.action = "help" ->
           ParserExit(p, env, [st EXCEPT !.ev = @ \o print_help(p, env)], 0, "")

\* after parser.error returned to _process_long_opt, `value` was never
\* assigned and option.process(opt, value, ...) raises UnboundLocalError
Unbound(e) == IF e.ctl = "SystemExit" THEN e ELSE [e EXCEPT !.ctl = "UnboundLocalError"]

ErrorThenUnbound(p, env, st, msg) == Unbound(ParserError(p, env, st, msg))

\* OptionParser._match_abbrev: the options the string names, exactly or as
\* the prefix of exactly one option
match_abbrev(option_list, s) ==
    LET exact == {o \in Range(option_list) : o.long = s}
        possibilities == {o \in Range(option_list) : StartsWith(o.long, s)}
    IN IF exact # {} THEN exact
       ELSE IF Cardinality(possibilities) = 1 THEN possibilities
       ELSE {}

\* OptionParser._process_long_opt
ProcessLongOpt(p, env, st) ==
    LET arg == Head(st.rargs)
        had_explicit_value == arg.k = "longeq"
        rargs1 == IF had_explicit_value THEN <<W(arg.v)>> \o Tail(st.rargs)
                  ELSE Tail(st.rargs)
        st1 == [st EXCEPT !.rargs = rargs1]
        found == match_abbrev(p.option_list, arg.s)
        option == CHOOSE o \in found : TRUE
        opt == L(option.long)
    IN IF found = {}
       THEN [st1 EXCEPT !.ctl = "BadOptionError", !.opt_str = L(arg.s)]
       ELSE IF (takes_value(option) /\ Len(rargs1) < 1)
               \/ (~takes_value(option) /\ had_explicit_value)
       THEN ErrorThenUnbound(p, env, st1,
                TextOf(opt) \o (IF takes_value(option) THEN " option requires an argument"
                                ELSE " option does not take a value"))
       ELSE OptionProcess(p, env,
                          IF takes_value(option) THEN [st1 EXCEPT !.rargs = Tail(rargs1)]
                          ELSE st1,
                          option, opt,
                          IF takes_value(option) THEN Head(rargs1) ELSE DD)

\* OptionParser._process_short_opts: the cluster is popped and its
\* characters are taken one by one; an unknown one raises BadOptionError
\* and the rest of the cluster is lost
RECURSIVE ProcessShortOpts(_, _, _)
ShortRest(p, env, arg, option, r) ==
    IF r.ctl = "run" /\ ~takes_value(option) /\ arg.v # ""
    THEN ProcessShortOpts(p, env, [r EXCEPT !.rargs = <<S(arg.v, "")>> \o @])
    ELSE r

ProcessShortOpts(p, env, st) ==
    LET arg == Head(st.rargs)
        st1 == [st EXCEPT !.rargs = Tail(@)]
        found == {o \in Range(p.option_list) : o.short = arg.s}
        option == CHOOSE o \in found : TRUE
        opt == S(arg.s, "")
        inline == takes_value(option) /\ arg.v # ""
    IN IF found = {}
       THEN [st1 EXCEPT !.ctl = "BadOptionError", !.opt_str = opt]
       ELSE IF takes_value(option) /\ ~inline /\ Len(st1.rargs) < 1
       THEN ErrorThenUnbound(p, env, st1, TextOf(opt) \o " option requires an argument")
       ELSE ShortRest(p, env, arg, option,
                OptionProcess(p, env,
                              IF takes_value(option) /\ ~inline
                              THEN [st1 EXCEPT !.rargs = Tail(@)] ELSE st1,
                              option, opt,
                              IF inline THEN W(arg.v)
                              ELSE IF takes_value(option) THEN Head(st1.rargs) ELSE DD))

\* OptionParser._process_args
RECURSIVE OptionParser_process_args(_, _, _)
BaseLoop(p, env, n) ==
    IF n.ctl = "run" THEN OptionParser_process_args(p, env, n) ELSE n

BaseStep(p, env, st) ==
    LET arg == Head(st.rargs)
    IN CASE arg.k = "dd" -> [st EXCEPT !.rargs = Tail(@), !.ctl = "return"]
         [] arg.k \in {"long", "longeq"} -> ProcessLongOpt(p, env, st)
         [] arg.k = "short" -> ProcessShortOpts(p, env, st)
         [] OTHER ->
              IF p.allow_interspersed_args
              THEN [st EXCEPT !.largs = Append(@, arg), !.rargs = Tail(@)]
              ELSE [st EXCEPT !.ctl = "return"]

OptionParser_process_args(p, env, st) ==
    IF st.rargs = <<>> THEN [st EXCEPT !.ctl = "return"]
    ELSE BaseLoop(p, env, BaseStep(p, env, st))

\* CustomStderrOptionParser._process_args with ignore_unknown: the loop
\* around the base class's parse
RECURSIVE IgnoreUnknownLoop(_, _, _)
IgnoreUnknownNext(p, env, n) ==
    CASE n.ctl = "return" ->
           IF ~p.allow_interspersed_args THEN n ELSE IgnoreUnknownLoop(p, env, n)
      [] n.ctl = "BadOptionError" ->
           IgnoreUnknownLoop(p, env, [n EXCEPT !.largs = Append(@, n.opt_str)])
      [] OTHER -> n

IgnoreUnknownLoop(p, env, st) ==
    IF st.rargs = <<>> THEN [st EXCEPT !.ctl = "return"]
    ELSE IgnoreUnknownNext(p, env,
                           OptionParser_process_args(p, env, [st EXCEPT !.ctl = "run"]))

\* CustomStderrOptionParser._process_args
process_args(p, env, st) ==
    IF ~p.ignore_unknown THEN OptionParser_process_args(p, env, st)
    ELSE IgnoreUnknownLoop(p, env, st)

\* OptionParser.get_default_values
get_default_values(option_list) ==
    [d \in {o.dest : o \in {x \in Range(option_list) : x.dest # ""}} |->
        (CHOOSE o \in Range(option_list) : o.dest = d).default]

\* OptionParser.parse_args: BadOptionError and OptionValueError become
\* self.error; what is left is largs + rargs
Parsed(e) == [ctl |-> e.ctl, values |-> e.values, args |-> e.largs \o e.rargs, ev |-> e.ev]

ParseErrors(p, env, r) ==
    IF r.ctl \in {"BadOptionError", "OptionValueError"}
    THEN ParserError(p, env, [r EXCEPT !.ctl = "return"],
                     IF r.ctl = "BadOptionError"
                     THEN "no such option: " \o TextOf(r.opt_str)
                     ELSE "option " \o TextOf(r.opt_str) \o ": invalid "
                            \o (IF \E o \in Range(p.option_list) :
                                      o.long = r.opt_str.s /\ o.type = "float"
                                THEN "floating-point" ELSE "integer")
                            \o " value")
    ELSE r

parse_args(p, env, args) ==
    Parsed(ParseErrors(p, env,
             process_args(p, env,
                          PState(<<>>, args, get_default_values(p.option_list),
                                 <<>>, "run", DD))))

(***************************************************************************)
(* The dispatcher's own effects.                                           *)
(***************************************************************************)
\* a write that leaves the newline out (addnewline ignored)
write_NoNewline(stdout, msg) == <<WriteEv(stdout, msg)>>

\* MicroCLI.write(msg): str(msg), then a newline, to the CLI's stdout
write(stdout, msg) == <<WriteEv(stdout, msg), WriteEv(stdout, "\n")>>

\* How a piece of code ends: it returns, it raises, or SystemExit unwinds
\* the run.  `ev` are its effects, `result` its return value, `exc` the
\* exception's type and `calls` the command-body invocations it made.
Outcome(ctl, ev, result, exc, calls) ==
    [ctl |-> ctl, ev |-> ev, result |-> result, exc |-> exc, calls |-> calls]

\* MicroCLI.exit -> sys.exit
exit(env, code) ==
    Outcome(IF env.exit_returns THEN "return" ELSE "SystemExit",
            <<ExitEv(code)>>, PyNone, "", <<>>)

\* an arity check that asks for the exact count whether or not the command
\* declares *varargs
verify_function_arity_Exact(name, env, args) ==
    IF Len(args) # Len(arg_names(name))
    THEN [exit(env, 1) EXCEPT !.ev =
               write(env.stdout,
                     "Expected " \o ToString(Len(arg_names(name))) \o " arguments, got "
                       \o ToString(Len(args)))
               \o write(env.stdout,
                        "Expected arguments: " \o JoinWith(arg_names(name), ", "))
               \o @]
    ELSE Outcome("return", <<>>, PyNone, "", <<>>)

\* CommandDefinition.verify_function_arity
verify_function_arity(name, env, args) ==
    IF varargs(name) # NoVarargs /\ Len(args) >= Len(arg_names(name))
    THEN Outcome("return", <<>>, PyNone, "", <<>>)
    ELSE IF Len(args) # Len(arg_names(name))
    THEN [exit(env, 1) EXCEPT !.ev =
               write(env.stdout,
                     (IF varargs(name) # NoVarargs THEN "Expected at least "
                      ELSE "Expected ")
                       \o ToString(Len(arg_names(name))) \o " arguments, got "
                       \o ToString(Len(args)))
               \o write(env.stdout,
                        "Expected arguments: " \o JoinWith(arg_names(name), ", "))
               \o @]
    ELSE Outcome("return", <<>>, PyNone, "", <<>>)

\* a combination that passes the positional arguments on and leaves the
\* parsed options out
combine_args_PositionalOnly(awd, pos_args, kwargs) == [ok |-> TRUE, list |-> pos_args]

\* CommandDefinition.combine_args: pos_args.pop(0) on an empty list raises
\* IndexError
RECURSIVE combine_args(_, _, _)
combine_args(awd, pos_args, kwargs) ==
    IF awd = <<>> THEN [ok |-> TRUE, list |-> pos_args]
    ELSE IF Head(awd).default # ARG_NO_DEFAULT_VALUE
    THEN [combine_args(Tail(awd), pos_args, kwargs) EXCEPT
            !.list = <<IF ParamName(Head(awd)) \in DOMAIN kwargs
                       THEN kwargs[ParamName(Head(awd))] ELSE Head(awd).default>> \o @]
    ELSE IF pos_args = <<>> THEN [ok |-> FALSE, list |-> <<>>]
    ELSE [combine_args(Tail(awd), Tail(pos_args), kwargs) EXCEPT
            !.list = <<Head(pos_args)>> \o @]

\* Python's binding of a call fun(cli, *args, **kwargs) to the command's
\* parameters: positional values fill the parameters in order, the surplus
\* goes to *varargs, keywords bind by name, defaults fill what is left; a
\* surplus without *varargs, a parameter given twice or a parameter left
\* without a value is a TypeError and the body does not run.
PyCall(name, args, kwargs) ==
    LET P == args_with_defaults(name)
        names == [i \in 1..Len(P) |-> ParamName(P[i])]
        npos == IF Len(args) < Len(P) THEN Len(args) ELSE Len(P)
        twice == \E i \in 1..npos : names[i] \in DOMAIN kwargs
        unknown == \E k \in DOMAIN kwargs : k \notin Range(names)
        missing == \E i \in (npos + 1)..Len(P) :
                      names[i] \notin DOMAIN kwargs /\ P[i].default = ARG_NO_DEFAULT_VALUE
        surplus == Len(args) > Len(P) /\ varargs(name) = NoVarargs
    IN IF twice \/ unknown \/ missing \/ surplus
       THEN [ok |-> FALSE, bound |-> <<>>, rest |-> <<>>]
       ELSE [ok |-> TRUE,
             bound |-> [i \in 1..Len(P) |->
                          IF i <= npos THEN args[i]
                          ELSE IF names[i] \in DOMAIN kwargs THEN kwargs[names[i]]
                          ELSE P[i].default],
             rest |-> SubSeq(args, npos + 1, Len(args))]

(***************************************************************************)
(* The command bodies: MicroCLI.help and the methods of T.  `b` are the    *)
(* values of the parameters in signature order, `rest` the *varargs.       *)
(***************************************************************************)
Return(v) == Outcome("return", <<>>, v, "", <<>>)
Raise(exc) == Outcome("raise", <<>>, PyNone, exc, <<>>)

\* a global parser that lets options and positional arguments intersperse
GlobalOptionParser_Interspersed(option_list, stderr) ==
    Parser(option_list, TRUE, TRUE, stderr, "")

\* GlobalOptionParser.__init__: ignore_unknown=True and
\* disable_interspersed_args()
GlobalOptionParser(option_list, stderr) == Parser(option_list, TRUE, FALSE, stderr, "")

RECURSIVE JoinValues(_, _)
JoinValues(vals, sep) ==
    IF vals = <<>> THEN ""
    ELSE IF Len(vals) = 1 THEN StrOf(vals[1])
    ELSE StrOf(vals[1]) \o sep \o JoinValues(Tail(vals), sep)

Body(name, b, rest, env) ==
    CASE name = "help" ->
           [Return(PyNone) EXCEPT
              !.ev = print_help(GlobalOptionParser(env.option_list, env.stdout), env)]
      [] name = "f1" -> Return(PyInt(RETVAL))
      [] name = "f2" -> Return(b[1])
      [] name = "f3" -> Return(PyInt(Len(b[1].s)))
      [] name = "f4" -> Return(PyStr(JoinValues(<<b[1], b[2], b[3]>>, ",")))
      [] name = "f5" ->
           IF "some_option" \notin DOMAIN env.global_options THEN Raise("KeyError")
           ELSE IF env.global_options["some_option"].t # "str" THEN Raise("TypeError")
           ELSE IF ~IsIntText(env.global_options["some_option"].s) THEN Raise("ValueError")
           ELSE Return(PyInt(IntOfText(env.global_options["some_option"].s) + b[1].n))
      [] name = "f6" -> Return(PyStr(JoinValues(<<b[1], b[2], PyInt(Len(rest))>>, ",")))
      [] name = "f7" ->
           Return(PyStr(JoinValues(<<PyStr(b[1].t), b[1], PyStr(b[2].t), b[2],
                                     PyStr(b[3].t), b[3], PyStr(b[4].t), b[4],
                                     PyStr(b[5].t), b[5]>>, ",")))
      [] name = "f8" -> Return(PyStr(JoinValues(rest, " ")))
      [] name = "f9" -> Return(PyStr(JoinValues(<<PyInt(Len(rest)), b[2], b[1]>>, ",")))

\* the record of one invocation of a command body
Call(name, b, rest) == [name |-> name, bound |-> b, rest |-> rest]

\* self.fun(cli, *args, **kwargs): the decorator's wrapper passes the
\* arguments on to the method
Invoked(name, c, r) ==
    [r EXCEPT !.ev = <<CallEv(name)>> \o @, !.calls = <<Call(name, c.bound, c.rest)>>]

Bound(name, c, env) ==
    IF ~c.ok THEN Raise("TypeError")
    ELSE Invoked(name, c, Body(name, c.bound, c.rest, env))

Invoke(name, args, kwargs, env) == Bound(name, PyCall(name, args, kwargs), env)

PyStrs(toks) == [i \in 1..Len(toks) |-> PyStr(TextOf(toks[i]))]

NoKwargs == [d \in {} |-> PyNone]

\* CommandDefinition.run after the parse: the arity check, then the call
AfterArity(parsed, arity, called) ==
    IF arity.ctl = "SystemExit"
    THEN [arity EXCEPT !.ev = parsed.ev \o @]
    ELSE [called EXCEPT !.ev = parsed.ev \o arity.ev \o @]

CombinedCall(name, env, combined) ==
    IF ~combined.ok THEN Raise("IndexError")
    ELSE Invoke(name, combined.list, NoKwargs, env)

RunParsed(name, env, parsed) ==
    CASE parsed.ctl = "SystemExit" ->
           Outcome("SystemExit", parsed.ev, PyNone, "", <<>>)
      [] parsed.ctl = "UnboundLocalError" ->
           Outcome("return",
                   parsed.ev \o write(env.stdout, "Error parsing command arguments"),
                   PyInt(1), "", <<>>)
      [] OTHER ->
           AfterArity(parsed,
                      verify_function_arity(name, env, PyStrs(parsed.args)),
                      IF varargs(name) = NoVarargs
                      THEN Invoke(name, PyStrs(parsed.args), parsed.values, env)
                      ELSE CombinedCall(name, env,
                                        combine_args(args_with_defaults(name),
                                                     PyStrs(parsed.args), parsed.values)))

\* CommandDefinition.run
CommandDefinition_run(name, env, args) ==
    RunParsed(name, env, parse_args(CommandOptionParser(name), env, args))

(***************************************************************************)
(* The command lines of the model.                                         *)
(***************************************************************************)
MaxArgs == 4
MaxPre == 2
MaxOpts == 2

SeqsUpTo(T, n) == UNION {[1..k -> T] : k \in 0..n}

\* the tokens tried after each command's name
ArgToks(name) ==
    CASE name = "help" -> {W("a")}
      [] name = "f1" -> {W("a"), L("bogus")}
      [] name = "f2" -> {W("a"), W("7"), L("bogus")}
      [] name = "f3" -> {L("awesome-option"), L("awesome"), W("a"), W("")}
      [] name = "f4" -> {W("a"), W("b"), L("kwopt"), LV("kwopt", "c")}
      [] name = "f5" -> {L("cmd-specific-arg"), W("7"), S("7", ""), W("a")}
      [] name = "f6" -> {W("a"), W("b"), L("bogus")}
      [] name = "f7" -> {W("a")}
      [] name = "f8" -> {W("a"), L("c")}
      [] name = "f9" -> {W("a"), L("switch"), W("3")}

\* the tokens tried before the command's name, and what follows them
PreToks == {L("cmd-specific-arg"), W("5"), L("bogus"), S("h", ""), DD}
Tails == {<<>>, <<W("nocmd")>>, <<W("help")>>, <<W("f1")>>, <<W("f5")>>,
          <<W("f5"), L("cmd-specific-arg"), W("7")>>,
          <<W("f5"), L("cmd-specific-arg"), S("7", "")>>}

\* the tokens tried after the names of the command with typed options and
\* of the command whose parser ignores unknown options
OptionCommands == {"f7", "f8"}
OptToks(name) ==
    CASE name = "f7" -> {L("int-option"), L("float-option"), L("bool-option1"),
                         L("bool-option2"), W("1"), W("2.5"), W("a")}
      [] name = "f8" -> {W("a"), L("c"), LV("c", "d"), S("a", ""), S("a", "b"), DD}

\* argv[1:]
Argvs ==
    UNION {{<<W(name)>> \o args : args \in SeqsUpTo(ArgToks(name), MaxArgs)} :
             name \in CommandNames}
    \cup UNION {{<<W(name)>> \o args : args \in SeqsUpTo(OptToks(name), MaxOpts)} :
                  name \in OptionCommands}
    \cup {pre \o tail : pre \in SeqsUpTo(PreToks, MaxPre), tail \in Tails}

\* the global options a host registers after construction (the tests'
\* cli.global_optparser.add_option calls)
HostOptions ==
    {Option("some-option", "", "some_option", "store", "string", PyNone),
     Option("cmd-specific-arg", "", "some_option", "store", "string", PyNone)}

(***************************************************************************)
(* State.                                                                  *)
(***************************************************************************)
VARIABLES
    argv,            \* cli.argv[1:]
    exit_returns,    \* TRUE when the exit operation is intercepted (patched)
    stdout,          \* cli.stdout
    option_list,     \* cli.global_optparser.option_list
    pc,              \* "constructed", "command", "emit", "done"
    arg_list,        \* cli.arg_list
    global_options,  \* cli.global_options
    command_name,    \* run's command_name
    outcome,         \* how command_def.run ended
    log,             \* the effects of the run so far, in order
    escaped          \* the exception that left run, "" if none

vars == <<argv, exit_returns, stdout, option_list, pc, arg_list, global_options,
          command_name, outcome, log, escaped>>

NoOutcome == Outcome("none", <<>>, PyNone, "", <<>>)

\* MicroCLI.__init__
Init ==
    /\ argv \in Argvs
    /\ exit_returns \in BOOLEAN
    /\ stdout = CtorStdout
    /\ option_list = <<HelpOption>>
    /\ pc = "constructed"
    /\ arg_list = <<>>
    /\ global_options = NoKwargs
    /\ command_name = PyNone
    /\ outcome = NoOutcome
    /\ log = <<>>
    /\ escaped = ""

Env == [exit_returns |-> exit_returns, stdout |-> stdout, option_list |-> option_list,
        has_global_options |-> Len(option_list) > 1, global_options |-> global_options]

\* cli.global_optparser.add_option(...): optparse refuses an option string
\* that is already taken (OptionConflictError)
add_option(o) ==
    /\ pc = "constructed"
    /\ \A x \in Range(option_list) : x.long # o.long
    /\ option_list' = Append(option_list, o)
    /\ UNCHANGED <<argv, exit_returns, stdout, pc, arg_list, global_options,
                   command_name, outcome, log, escaped>>

\* cli.stdout = StringIO(), as the tests do after construction
RedirectStdout ==
    /\ pc = "constructed"
    /\ stdout' = LaterStdout
    /\ UNCHANGED <<argv, exit_returns, option_list, pc, arg_list, global_options,
                   command_name, outcome, log, escaped>>

\* the default_command of __init__
default_command == PyNone

\* effects e, then the exit operation
ThenExit(env, e, code) == [exit(env, code) EXCEPT !.ev = e \o @]

Returned(e) == Outcome("return", e, PyNone, "", <<>>)

\* command_name = self.default_command / self.arg_list[0]
CommandName(args) ==
    IF args # <<>> THEN PyStr(TextOf(args[1])) ELSE default_command

\* `if command_name is None:` of run
NoCommand(env, name) ==
    IF name = PyNone
    THEN ThenExit(env,
                  write(env.stdout,
                        "Please specify a command (try the 'help' command for usage info)!"),
                  1)
    ELSE Returned(<<>>)

\* the else branch of `if command_name in self.command_definitions:`
Unrecognized(env, name) ==
    ThenExit(env,
             write(env.stdout,
                   "Unrecognized command '" \o StrOf(name)
                     \o "' (try the 'help' command for usage info)!"),
             1)

IsCommand(name) == name.t = "str" /\ name.s \in CommandNames

\* the selection of the command: found, or the effects of not finding it
Selection(env, name, none) ==
    IF none.ctl = "SystemExit" THEN [found |-> FALSE, ev |-> none.ev]
    ELSE IF IsCommand(name) THEN [found |-> TRUE, ev |-> none.ev]
    ELSE [found |-> FALSE, ev |-> none.ev \o Unrecognized(env, name).ev]

SelectCommand(env, name) == Selection(env, name, NoCommand(env, name))

Selected(parsed, sel) ==
    /\ arg_list' = parsed.args
    /\ global_options' = parsed.values
    /\ command_name' = CommandName(parsed.args)
    /\ log' = log \o parsed.ev \o sel.ev
    /\ pc' = IF sel.found THEN "command" ELSE "done"
    /\ UNCHANGED escaped

Dispatched(parsed) ==
    CASE parsed.ctl = "SystemExit" ->
           /\ log' = log \o parsed.ev
           /\ pc' = "done"
           /\ UNCHANGED <<arg_list, global_options, command_name, escaped>>
      [] parsed.ctl = "UnboundLocalError" ->
           /\ log' = log \o parsed.ev
           /\ escaped' = "UnboundLocalError"
           /\ pc' = "done"
           /\ UNCHANGED <<arg_list, global_options, command_name>>
      [] OTHER -> Selected(parsed, SelectCommand(Env, CommandName(parsed.args)))

\* MicroCLI.run up to the dispatch: the global parse (read_global_options)
\* and the selection of the command
RunDispatch ==
    /\ pc = "constructed"
    /\ Dispatched(parse_args(GlobalOptionParser(option_list, stdout), Env, argv))
    /\ UNCHANGED <<argv, exit_returns, stdout, option_list, outcome>>

Commanded(o) ==
    /\ outcome' = o
    /\ log' = log \o o.ev
    /\ pc' = IF o.ctl = "SystemExit" THEN "done" ELSE "emit"

\* result = command_def.run(self, command_args)
RunCommand ==
    /\ pc = "command"
    /\ Commanded(CommandDefinition_run(command_name.s, Env, Tail(arg_list)))
    /\ UNCHANGED <<argv, exit_returns, stdout, option_list, arg_list, global_options,
                   command_name, escaped>>

\* an except clause that reports the failure and calls exit(0)
Failed_ExitZero(env, o) ==
    IF o.ctl = "raise"
    THEN ThenExit(env,
                  write(env.stdout, "Error: " \o o.exc)
                    \o write(env.stdout, "Traceback (most recent call last): " \o o.exc),
                  0)
    ELSE Returned(<<>>)

\* the except clause of run: the message, the trace, exit(1); result
\* stays None
Failed(env, o) ==
    IF o.ctl = "raise"
    THEN ThenExit(env,
                  write(env.stdout, "Error: " \o o.exc)
                    \o write(env.stdout, "Traceback (most recent call last): " \o o.exc),
                  1)
    ELSE Returned(<<>>)

\* `if result: self.exit(result)`: an integer tested for truth, so that 0
\* is not an exit code
ExitWithInt_Truthy(env, result) ==
    IF result.t = "int" /\ result.n # 0 THEN exit(env, result.n) ELSE Returned(<<>>)

\* `if type(result) == int: self.exit(result)`
ExitWithInt(env, result) ==
    IF result.t = "int" THEN exit(env, result.n) ELSE Returned(<<>>)

\* `if result is not None: self.write(result); self.exit(0)`
WriteResult(env, result) ==
    IF result # PyNone THEN ThenExit(env, write(env.stdout, StrOf(result)), 0)
    ELSE Returned(<<>>)

ResultOf(o) == IF o.ctl = "raise" THEN PyNone ELSE o.result

\* the statements of a block in turn; SystemExit ends the block
Then2(a, b) == IF a.ctl = "SystemExit" THEN a.ev ELSE a.ev \o b.ev
Then3(a, b, c) ==
    IF a.ctl = "SystemExit" THEN a.ev
    ELSE IF b.ctl = "SystemExit" THEN a.ev \o b.ev
    ELSE a.ev \o b.ev \o c.ev

\* run after command_def.run: lines 437-446
Emit(env, o) ==
    Then3(Failed(env, o), ExitWithInt(env, ResultOf(o)), WriteResult(env, ResultOf(o)))

RunEmit ==
    /\ pc = "emit"
    /\ log' = log \o Emit(Env, outcome)
    /\ pc' = "done"
    /\ UNCHANGED <<argv, exit_returns, stdout, option_list, arg_list, global_options,
                   command_name, outcome, escaped>>

Next ==
    \/ \E o \in HostOptions : add_option(o)
    \/ RedirectStdout
    \/ RunDispatch
    \/ RunCommand
    \/ RunEmit

Spec == Init /\ [][Next]_vars

(***************************************************************************)
(* What a finished run shows: the effects after the invocation of the      *)
(* command body, and the body's own effects among them.                    *)
(***************************************************************************)
Finished == pc = "done"

BodyRan == Finished /\ outcome.calls # <<>>

CallIdx == CHOOSE i \in 1..Len(log) : log[i].e = "call"

AfterCall == SubSeq(log, CallIdx + 1, Len(log))

BodyEffects ==
    LET i == CHOOSE j \in 1..Len(outcome.ev) : outcome.ev[j].e = "call"
    IN SubSeq(outcome.ev, i + 1, Len(outcome.ev))

BodyReturned == BodyRan /\ outcome.ctl = "return"

\* C1: when the body of a command returns an integer k, the invocation is
\* followed at once by the exit operation with code k, whatever k is, and
\* nothing is written for the result; with an exit that terminates, the
\* whole run is the invocation and exit(k).
C1_IntegerReturnIsExitCode ==
    (BodyReturned /\ outcome.result.t = "int")
    => /\ AfterCall # <<>>
       /\ AfterCall[1] = ExitEv(outcome.result.n)
       /\ ~exit_returns =>
             log = <<CallEv(outcome.calls[1].name), ExitEv(outcome.result.n)>>

\* a run of f5 that returned a negative integer and ended with it
C1_Witness ==
    /\ BodyReturned /\ ~exit_returns
    /\ outcome.result.t = "int" /\ outcome.result.n < 0
    /\ log[Len(log)] = ExitEv(outcome.result.n)

\* what the dispatcher does with a value v that it writes
WrittenThenExitZero(v) ==
    AfterCall = BodyEffects \o <<WriteEv(stdout, StrOf(v)), WriteEv(stdout, "\n"), ExitEv(0)>>

CommandRan == Finished /\ outcome.ctl # "none"

Region == Tail(arg_list)

\* the parse the command's parser makes of the region
CommandParse == parse_args(CommandOptionParser(command_name.s), Env, Region)

Required(name) ==
    Cardinality({i \in 1..Len(args_with_defaults(name)) :
                   args_with_defaults(name)[i].default = ARG_NO_DEFAULT_VALUE})

IsVariadic(name) == get_commands(name).varargs # NoVarargs

CountFits(name, n) ==
    IF IsVariadic(name) THEN n >= Required(name) ELSE n = Required(name)

IsSegment(seg, seq) ==
    \E i \in 0..(Len(seq) - Len(seg)) : SubSeq(seq, i + 1, i + Len(seg)) = seg

ArityReport(name, n) ==
    <<WriteEv(stdout, (IF IsVariadic(name) THEN "Expected at least " ELSE "Expected ")
                        \o ToString(Required(name)) \o " arguments, got " \o ToString(n)),
      WriteEv(stdout, "\n"),
      WriteEv(stdout, "Expected arguments: " \o JoinWith(arg_names(name), ", ")),
      WriteEv(stdout, "\n"),
      ExitEv(1)>>

ArityGate(name, n) ==
    /\ CountFits(name, n) <=> outcome.calls # <<>>
    /\ ~CountFits(name, n) =>
         /\ IsSegment(ArityReport(name, n), log)
         /\ ~exit_returns => log = ArityReport(name, n)

\* C3: after a command parse that ended normally, the body is invoked if
\* and only if the number of positional tokens the parser left equals the
\* number N of parameters without a default (no *varargs) or is at least N
\* (*varargs declared); otherwise the expected and actual counts and the
\* expected argument names are written to the output stream, exit(1)
\* follows, and the body is not invoked.
C3_ArityGate ==
    (CommandRan /\ CommandParse.ctl = "return")
    => ArityGate(command_name.s, Len(CommandParse.args))

\* f6 (two required parameters and *vararg) given one token: the report
\* and exit(1) are the whole run
C3_Witness ==
    /\ CommandRan /\ ~exit_returns
    /\ command_name = PyStr("f6") /\ Region = <<W("a")>>
    /\ outcome.calls = <<>>
    /\ log = ArityReport("f6", 1)

Scan(pos, given, err) == [pos |-> pos, given |-> given, err |-> err]

Supply(acc, option, value) ==
    IF \/ option.type = "int" /\ ~IsIntText(TextOf(value))
       \/ option.type = "float" /\ ~IsFloatText(TextOf(value))
    THEN [acc EXCEPT !.err = "type"]
    ELSE [acc EXCEPT !.given = Append(@, [long |-> option.long, value |-> value])]

RECURSIVE CmdScan(_, _, _)
ScanFlag(name, t, rest, acc, found) ==
    IF found = {}
    THEN IF get_commands(name).ignore_unknown
         THEN IF t.k = "long" THEN CmdScan(name, rest, [acc EXCEPT !.pos = Append(@, t)])
              ELSE [acc EXCEPT !.err = "unscanned"]
         ELSE [acc EXCEPT !.err = "unknown"]
    ELSE IF ~takes_value(CHOOSE o \in found : TRUE)
    THEN IF t.k = "longeq" THEN [acc EXCEPT !.err = "novalue"]
         ELSE CmdScan(name, rest, Supply(acc, CHOOSE o \in found : TRUE, DD))
    ELSE IF t.k = "longeq"
    THEN CmdScan(name, rest, Supply(acc, CHOOSE o \in found : TRUE, W(t.v)))
    ELSE IF rest = <<>> THEN [acc EXCEPT !.err = "missing"]
    ELSE CmdScan(name, Tail(rest), Supply(acc, CHOOSE o \in found : TRUE, Head(rest)))

ScanToken(name, t, rest, acc) ==
    CASE t.k = "word" -> CmdScan(name, rest, [acc EXCEPT !.pos = Append(@, t)])
      [] t.k = "dd" ->
           IF get_commands(name).ignore_unknown THEN [acc EXCEPT !.err = "unscanned"]
           ELSE [acc EXCEPT !.pos = @ \o rest]
      [] t.k \in {"long", "longeq"} ->
           ScanFlag(name, t, rest, acc, match_abbrev(CommandOptionList(name), t.s))
      [] t.k = "short" ->
           IF get_commands(name).ignore_unknown THEN [acc EXCEPT !.err = "unscanned"]
           ELSE [acc EXCEPT !.err = "unknown"]

CmdScan(name, toks, acc) ==
    IF toks = <<>> \/ acc.err # "" THEN acc
    ELSE ScanToken(name, Head(toks), Tail(toks), acc)

RegionScan == CmdScan(command_name.s, Region, Scan(<<>>, <<>>, ""))

\* the last value given for the flag, if any
Supplied(sc, flag) == \E i \in 1..Len(sc.given) : sc.given[i].long = flag

LastValue(sc, flag) ==
    LET i == CHOOSE j \in 1..Len(sc.given) :
                 /\ sc.given[j].long = flag
                 /\ \A k \in (j + 1)..Len(sc.given) : sc.given[k].long # flag
    IN sc.given[i].value

\* the value a parameter with this default takes from a supplied option
Converted(default, value) ==
    CASE default.t = "int" -> PyInt(IntOfText(TextOf(value)))
      [] default.t = "float" -> PyFloat(FloatOfText(TextOf(value)))
      [] default.t = "bool" -> PyBool(default.n = 0)
      [] OTHER -> PyStr(TextOf(value))

Reassembled(c, sc, P, N) ==
    /\ Len(sc.pos) >= N
    /\ \A i \in 1..N : c.bound[i] = PyStr(TextOf(sc.pos[i]))
    /\ c.rest = [j \in 1..(Len(sc.pos) - N) |-> PyStr(TextOf(sc.pos[N + j]))]
    /\ \A i \in (N + 1)..Len(P) :
         IF Supplied(sc, JoinWith(P[i].segs, "-"))
         THEN c.bound[i] = Converted(P[i].default, LastValue(sc, JoinWith(P[i].segs, "-")))
         ELSE c.bound[i] = P[i].default

\* C4: when the body is invoked for a region without a usage error,
\* wherever the option flags stand among the positional tokens: the i-th
\* positional token is the value of the i-th parameter without a default,
\* the positional tokens beyond those, in order, are the *varargs, each
\* option supplied is the value of the parameter it is named after, and
\* each option not supplied leaves its parameter at the declared default.
C4_CallReassembly ==
    (BodyRan /\ RegionScan.err = "")
    => Reassembled(outcome.calls[1], RegionScan,
                   args_with_defaults(command_name.s), Required(command_name.s))

\* f9 a --switch 3 a: the flag stands between the positional tokens
C4_Witness ==
    /\ BodyRan
    /\ Region = <<W("a"), L("switch"), W("3"), W("a")>>
    /\ outcome.calls[1] = Call("f9", <<PyStr("a"), PyInt(3)>>, <<PyStr("a")>>)

\* C5: with an exit that terminates, a usage error in the command's region
\* (a declared option without its value, a value that is not of the
\* option's type, an unknown flag for a strict parser) writes the usage
\* text to the output stream, everything written goes to that stream, the
\* run ends with exit(2) and the body is not invoked.
C5_UsageErrorOnOutputStream ==
    (CommandRan /\ ~exit_returns /\ RegionScan.err \in {"missing", "type", "unknown"})
    => /\ outcome.calls = <<>>
       /\ log[Len(log)] = ExitEv(2)
       /\ log[1] = WriteEv(stdout, get_usage(CommandOptionParser(command_name.s), Env))
       /\ \A i \in 1..Len(log) : log[i].e = "write" => log[i].stream = stdout

\* the same with the stream of the command's parser in place of the
\* output stream
C5_UsageErrorOnParserStream ==
    (CommandRan /\ ~exit_returns /\ RegionScan.err \in {"missing", "type", "unknown"})
    => /\ outcome.calls = <<>>
       /\ log[Len(log)] = ExitEv(2)
       /\ log[1] = WriteEv(CtorStdout, get_usage(CommandOptionParser(command_name.s), Env))
       /\ \A i \in 1..Len(log) : log[i].e = "write" => log[i].stream = CtorStdout

\* C6: a failure raised by an invoked body is caught by run: "Error: "
\* and the failure's message, a newline, the trace and a newline are
\* written to the output stream, exit(1) follows, nothing comes after it
\* (no result is written, no other exit code), and no exception leaves run.
C6_FailureCaughtAtDispatch ==
    (BodyRan /\ outcome.ctl = "raise")
    => /\ Len(AfterCall) = 5
       /\ AfterCall[1] = WriteEv(stdout, "Error: " \o outcome.exc)
       /\ AfterCall[2] = WriteEv(stdout, "\n")
       /\ AfterCall[3].e = "write" /\ AfterCall[3].stream = stdout
       /\ AfterCall[4] = WriteEv(stdout, "\n")
       /\ AfterCall[5] = ExitEv(1)
       /\ escaped = ""

\* f5 failed on a global option value that is not a number, output
\* redirected
C6_Witness ==
    /\ BodyRan /\ ~exit_returns /\ stdout = LaterStdout
    /\ outcome.calls[1].name = "f5" /\ outcome.exc = "ValueError"
    /\ log[Len(log)] = ExitEv(1)

(***************************************************************************)
(* The global region: argv read as a user reads it, up to the first bare   *)
(* word.                                                                   *)
(***************************************************************************)
\* the parse the global parser makes of argv
GlobalParse == parse_args(GlobalOptionParser(option_list, stdout), Env, argv)

Least(a, b) == IF a < b THEN a ELSE b

\* the index of the first bare word at or after i, Len + 1 if there is none
FirstWord(toks, i) ==
    IF \E j \in i..Len(toks) : toks[j].k = "word"
    THEN CHOOSE j \in i..Len(toks) :
             toks[j].k = "word" /\ \A k \in i..(j - 1) : toks[k].k # "word"
    ELSE Len(toks) + 1

\* b: the index of the first bare word that is not the value of a
\* registered global option; unknown: the indices before it of the long
\* flags that name no registered global option
RECURSIVE GlobalScan(_, _, _)
ScanLong(toks, i, unk, found) ==
    IF found = {} THEN GlobalScan(toks, i + 1, Append(unk, i))
    ELSE IF toks[i].k = "long" /\ takes_value(CHOOSE o \in found : TRUE)
    THEN GlobalScan(toks, Least(i + 2, Len(toks) + 1), unk)
    ELSE GlobalScan(toks, i + 1, unk)

GlobalScan(toks, i, unk) ==
    IF i > Len(toks) THEN [b |-> i, unknown |-> unk]
    ELSE CASE toks[i].k = "word" -> [b |-> i, unknown |-> unk]
           [] toks[i].k = "dd" -> [b |-> FirstWord(toks, i + 1), unknown |-> unk]
           [] toks[i].k \in {"long", "longeq"} ->
                ScanLong(toks, i, unk, match_abbrev(option_list, toks[i].s))
           [] OTHER -> GlobalScan(toks, i + 1, unk)

ArgvScan == GlobalScan(argv, 1, <<>>)

\* C7 as stated: when the global parse leaves no token, or a first token
\* that is not a registered command name, the run invokes `help` and
\* calls exit with no code other than 0.
C7_SelectionFallsBackToHelp ==
    (Finished /\ GlobalParse.ctl = "return" /\ ~IsCommand(CommandName(GlobalParse.args)))
    => /\ \E i \in 1..Len(log) : log[i] = CallEv("help")
       /\ \A i \in 1..Len(log) : log[i].e = "exit" => log[i].code = 0

\* C8 as stated: when `help` is the command run, what is written begins
\* with the global usage line ("Usage: ...") and the last thing the run
\* does is call exit(0).
C8_HelpEndsWithExitZero ==
    (BodyRan /\ outcome.calls[1].name = "help")
    => /\ AfterCall # <<>>
       /\ AfterCall[1] = WriteEv(stdout,
                                 GlobalUsageLine(option_list) \o GlobalOptionHelp(option_list))
       /\ log[Len(log)] = ExitEv(0)

IsShared(tok) == tok.k \in {"long", "longeq"} /\ StartsWith("cmd-specific-arg", tok.s)

Boundary(b) ==
    /\ Len(arg_list) >= Len(argv) - b + 1
    /\ SubSeq(arg_list, Len(arg_list) - (Len(argv) - b), Len(arg_list))
         = SubSeq(argv, b, Len(argv))
    /\ global_options
         = parse_args(GlobalOptionParser(option_list, stdout), Env,
                      SubSeq(argv, 1, b - 1)).values
    /\ (\A j \in 1..(b - 1) : ~IsShared(argv[j]))
         => \A d \in DOMAIN global_options : global_options[d] = PyNone
    /\ (BodyRan /\ outcome.calls[1].name = "f5")
         => /\ outcome.calls[1].bound[1]
                 = parse_args(CommandOptionParser("f5"), Env,
                              SubSeq(argv, b + 1, Len(argv))).values["cmd_specific_arg"]
            /\ (\A j \in (b + 1)..Len(argv) : ~IsShared(argv[j]))
                 => outcome.calls[1].bound[1] = PyInt(2)

\* C9: once the global parse has returned, the tokens of argv from the
\* first bare word on are the end of the remaining tokens, unchanged and
\* in order, and the global option values are those of the tokens before
\* that word alone.  Hence the flag that a global option and f5's option
\* share leaves the global value unset when it stands only after the
\* command name, leaves f5's parameter at its default when it stands only
\* before, and gives f5 the value that follows the command name.
C9_GlobalCommandBoundary ==
    (pc # "constructed" /\ GlobalParse.ctl = "return") => Boundary(ArgvScan.b)

\* --cmd-specific-arg 5 f5 --cmd-specific-arg 7 with the option registered
\* globally: the global value is "5", f5 got 7, the run ends with exit(12)
C9_Witness ==
    /\ Finished /\ BodyRan
    /\ argv = <<L("cmd-specific-arg"), W("5"), W("f5"), L("cmd-specific-arg"), W("7")>>
    /\ global_options["some_option"] = PyStr("5")
    /\ outcome.calls[1] = Call("f5", <<PyInt(7)>>, <<>>)
    /\ log[Len(log)] = ExitEv(12)

UnknownFlagsFirst(unk) ==
    /\ Len(arg_list) >= Len(unk)
    /\ SubSeq(arg_list, 1, Len(unk)) = [i \in 1..Len(unk) |-> argv[unk[i]]]

\* C10 as stated: when long flags that name no global option stand before
\* a first bare word that names a registered command, the global parse
\* calls no exit(2), the flags are among the remaining tokens unchanged
\* and in order, and the command that is dispatched is the one the bare
\* word names.
C10_UnknownFlagBeforeCommand ==
    (/\ Finished /\ GlobalParse.ctl = "return"
     /\ ArgvScan.unknown # <<>>
     /\ ArgvScan.b <= Len(argv)
     /\ argv[ArgvScan.b].s \in CommandNames)
    => /\ \A i \in 1..Len(GlobalParse.ev) : GlobalParse.ev[i] # ExitEv(2)
       /\ UnknownFlagsFirst(ArgvScan.unknown)
       /\ command_name = PyStr(argv[ArgvScan.b].s)
       /\ CommandRan

\* what holds of C10: the flags pass through, and the first of them is
\* taken for the command name
C10_UnknownFlagTakenAsCommand ==
    (/\ Finished /\ GlobalParse.ctl = "return"
     /\ ArgvScan.unknown # <<>>)
    => /\ \A i \in 1..Len(GlobalParse.ev) : GlobalParse.ev[i] # ExitEv(2)
       /\ UnknownFlagsFirst(ArgvScan.unknown)
       /\ command_name = PyStr(TextOf(argv[ArgvScan.unknown[1]]))
       /\ ~CommandRan

(***************************************************************************)
(* Commands whose parser ignores unknown options.                          *)
(***************************************************************************)
IgnoresUnknown == CommandRan /\ get_commands(command_name.s).ignore_unknown

NoExitTwo == \A i \in 1..Len(log) : log[i] # ExitEv(2)

\* C11 as stated: for a command whose parser ignores unknown options and
\* that declares none, no token of the region causes exit(2), the body is
\* invoked, and its variadic arguments are the tokens of the region,
\* unchanged, each once and in order.
C11_UnknownTokensDelivered ==
    (IgnoresUnknown /\ CommandOptionList(command_name.s) = <<>>)
    => /\ NoExitTwo
       /\ BodyRan
       /\ outcome.calls[1].rest = PyStrs(Region)

\* the tokens read in one piece: bare words, --flag, and -x of one letter
InOnePiece(toks) ==
    \A i \in 1..Len(toks) :
        \/ toks[i].k \in {"word", "long"}
        \/ toks[i].k = "short" /\ toks[i].v = ""

\* what holds of C11: no token causes exit(2) and the body is invoked; the
\* tokens are delivered unchanged when each is a bare word, a --flag or a
\* -x of one letter
C11_PlainTokensDelivered ==
    (IgnoresUnknown /\ CommandOptionList(command_name.s) = <<>>)
    => /\ NoExitTwo
       /\ BodyRan
       /\ InOnePiece(Region) => outcome.calls[1].rest = PyStrs(Region)

(***************************************************************************)
(* Typed options.                                                          *)
(***************************************************************************)
ParamsOf(types) ==
    {i \in 1..Len(args_with_defaults(command_name.s)) :
        args_with_defaults(command_name.s)[i].default.t \in types}

FlagOf(i) == JoinWith(args_with_defaults(command_name.s)[i].segs, "-")

DefaultOf(i) == args_with_defaults(command_name.s)[i].default

IsBoolFlag(tok) ==
    tok.k = "long" /\ \E i \in ParamsOf({"bool"}) : tok.s = FlagOf(i)

Words(toks) == SelectSeq(toks, LAMBDA t : t.k = "word")

\* the value of a boolean parameter: the opposite of its default when the
\* flag is present, the default when it is absent
BoolValues(c, sc) ==
    \A i \in ParamsOf({"bool"}) :
        c.bound[i] = PyBool(Supplied(sc, FlagOf(i)) # (DefaultOf(i).n = 1))

\* C12: when the body is invoked for a region without a usage error, a
\* parameter whose default is True has the value False if its --flag
\* (underscores as hyphens) is present and True if it is absent, and a
\* parameter whose default is False has True if present and False if
\* absent; and the flag takes no value: in a region of boolean flags and
\* bare words, every bare word is left as a positional token.
C12_BooleanFlags ==
    /\ (BodyRan /\ RegionScan.err = "") => BoolValues(outcome.calls[1], RegionScan)
    /\ (CommandRan /\ \A j \in 1..Len(Region) :
                          Region[j].k = "word" \/ IsBoolFlag(Region[j]))
         => CommandParse.args = Words(Region)

\* f7 --bool-option1 --bool-option2: both flags present
C12_Witness ==
    /\ BodyRan /\ command_name = PyStr("f7")
    /\ Region = <<L("bool-option1"), L("bool-option2")>>
    /\ outcome.calls[1].bound[3] = PyBool(FALSE)
    /\ outcome.calls[1].bound[4] = PyBool(TRUE)

FirstExit == CHOOSE i \in 1..Len(log) :
                 log[i].e = "exit" /\ \A j \in 1..(i - 1) : log[j].e # "exit"

NumericKinds(c) ==
    \A i \in ParamsOf({"int", "float"}) : c.bound[i].t = DefaultOf(i).t

\* C13: whenever the body is invoked, each parameter whose default is an
\* integer has an integer value and each parameter whose default is a
\* float has a float value, supplied or not; and when the value supplied
\* for such an option cannot be parsed as that kind, the first exit of the
\* run is exit(2), and with an exit that terminates the run ends there and
\* the body is not invoked.
C13_NumericKinds ==
    /\ BodyRan => NumericKinds(outcome.calls[1])
    /\ (CommandRan /\ RegionScan.err = "type")
         => /\ \E i \in 1..Len(log) : log[i].e = "exit"
            /\ log[FirstExit] = ExitEv(2)
            /\ ~exit_returns => (log[Len(log)] = ExitEv(2) /\ outcome.calls = <<>>)

\* f7 --float-option 1: the float parameter got 1.0, the integer parameter
\* its default 0
C13_Witness ==
    /\ BodyRan /\ command_name = PyStr("f7")
    /\ Region = <<L("float-option"), W("1")>>
    /\ outcome.calls[1].bound[1] = PyInt(0)
    /\ outcome.calls[1].bound[2] = PyFloat("1.0")

\* f7 --int-option 2.5 ended with exit(2), f7 not invoked
C13_WitnessRejected ==
    /\ CommandRan /\ ~exit_returns /\ command_name = PyStr("f7")
    /\ Region = <<L("int-option"), W("2.5")>>
    /\ outcome.calls = <<>>
    /\ log[Len(log)] = ExitEv(2)

(***************************************************************************)
(* Usage texts.                                                            *)
(***************************************************************************)
\* a global option besides the implicit -h/--help is registered
RegisteredGlobal == \E i \in 1..Len(option_list) : option_list[i] # HelpOption

HasOptions(name) ==
    \E i \in 1..Len(args_with_defaults(name)) :
        args_with_defaults(name)[i].default # ARG_NO_DEFAULT_VALUE

HelpRan == BodyRan /\ outcome.calls[1].name = "help"

\* the usage part of a command's help and of its usage errors
CommandUsageText(name) ==
    "    " \o name \o ": " \o get_commands(name).doc \o "\n    "
      \o Concat(CommandUsagePieces(name, RegisteredGlobal))

CommandUsageMarked(name) ==
    /\ GLOBAL_OPTIONS_STR \in Range(CommandUsagePieces(name, RegisteredGlobal))
         <=> RegisteredGlobal
    /\ COMMAND_OPTIONS_STR \in Range(CommandUsagePieces(name, RegisteredGlobal))
         <=> HasOptions(name)

CommandHelpWritten(name) ==
    \E i \in 1..Len(AfterCall) :
        AfterCall[i] = WriteEv(stdout, CommandUsageText(name) \o "\n"
                                         \o "    Command options:\n"
                                         \o OptionLines(CommandOptionList(name)))

\* C14: the usage texts that are written are made of pieces among which
\* "[global options]" is present if and only if a global option besides
\* the help flag is registered when the text is written (the host may
\* have registered it after construction), in the global usage line and
\* in every command's usage line, and "[command options]" is present in a
\* command's usage line if and only if the command has an option.  The
\* texts are those of the `help` command and of a usage error.
C14_HelpMarkers ==
    /\ HelpRan =>
         /\ GLOBAL_OPTIONS_STR \in Range(GlobalUsagePieces(option_list)) <=> RegisteredGlobal
         /\ AfterCall[1] = WriteEv(stdout, "Usage: " \o Concat(GlobalUsagePieces(option_list))
                                             \o "\n" \o GlobalOptionHelp(option_list))
         /\ \A name \in CommandNames : CommandUsageMarked(name) /\ CommandHelpWritten(name)
    /\ (CommandRan /\ ~exit_returns /\ RegionScan.err \in {"missing", "type", "unknown"})
         => /\ CommandUsageMarked(command_name.s)
            /\ log[1].text = CommandUsageText(command_name.s)

\* `help` run after the host registered --some-option: the global usage
\* line has the marker
C14_Witness ==
    /\ HelpRan /\ RegisteredGlobal
    /\ AfterCall[1].text
         = "Usage: prog [global options] command [command options] command arguments\n"
             \o GlobalOptionHelp(option_list)

(***************************************************************************)
(* The output stream and the exit operation over a whole run.              *)
(***************************************************************************)
\* C15 as stated: every write of a run, by whichever component, goes to
\* the stream that cli.stdout is during the run, whether that stream was
\* given at construction or assigned afterwards.
C15_SingleOutputSink ==
    \A i \in 1..Len(log) : log[i].e = "write" => log[i].stream = stdout

\* what holds of C15: the writes that go elsewhere go to the stream of
\* construction time, and they are writes of the command's parser (they
\* come before the body is invoked and only after a redirection)
C15_OnlyCommandParserStrays ==
    \A i \in 1..Len(log) :
        (log[i].e = "write" /\ log[i].stream # stdout)
        => /\ log[i].stream = CtorStdout
           /\ stdout = LaterStdout
           /\ outcome.ctl # "none"
           /\ IsSegment(<<log[i]>>, CommandParse.ev)

Exits == SelectSeq(log, LAMBDA e : e.e = "exit")

\* C16 as stated: in a finished run exit is called at most once and
\* nothing comes after the call (no invocation, no write, no other exit),
\* also when the exit operation is intercepted and returns; so the last
\* exit code is k when the body returned the integer k.
C16_ExitIsLast ==
    Finished
    => /\ Len(Exits) <= 1
       /\ \A i \in 1..Len(log) : log[i].e = "exit" => i = Len(log)
       /\ (BodyReturned /\ outcome.result.t = "int")
            => (Exits # <<>> /\ Exits[Len(Exits)] = ExitEv(outcome.result.n))

\* what holds of C16: with an exit that terminates, exit is called at most
\* once and is the last step
C16_TerminatingExitIsLast ==
    (Finished /\ ~exit_returns)
    => /\ Len(Exits) <= 1
       /\ \A i \in 1..Len(log) : log[i].e = "exit" => i = Len(log)

====
